---------------------------- MODULE Spec2Model ----------------------------
(***************************************************************************)
(* A model of mitk::SceneIO (Modules/SceneSerialization/src/mitkSceneIO.cpp):*)
(* SaveScene and LoadScene as sequences of steps over a small file system    *)
(* (the staging directories and the destination archive), the engine's       *)
(* members (m_WorkingDirectory, m_UnzipErrors, m_FailedNodes,                *)
(* m_FailedProperties) and the destination storage of a load.  Everything    *)
(* the code obtains from outside (Poco, TinyXML, the serializers, the scene  *)
(* reader) is an input of the step that calls it.                            *)
(***************************************************************************)
EXTENDS Naturals, Sequences, FiniteSets, TLC

VARIABLES
  fsDirs,              \* the directories that exist on disk
  destFile,            \* what the destination path holds
  m_WorkingDirectory,  \* SceneIO::m_WorkingDirectory
  m_UnzipErrors,       \* SceneIO::m_UnzipErrors
  m_FailedNodes,       \* SceneIO::m_FailedNodes (elements in push_back order)
  m_FailedProperties,  \* SceneIO::m_FailedProperties (keys of the list)
  callerStorage,       \* nodes of the DataStorage the caller owns
  freshStorage,        \* nodes of the storage LoadScene creates itself
  dsSources,           \* DataStorage::GetSources of the storage given to SaveScene
  localeMangles,       \* whether Poco::Path::transcode changes non-ASCII paths
  pc,                  \* position of the running call
  args,                \* the arguments of the running call
  storage,             \* LoadScene's local `storage`
  nodeUIDs,            \* SaveScene's local map nodeUIDs
  sourceUIDs,          \* SaveScene's local map sourceUIDs
  nodeUIDGen,          \* number of identifiers SaveScene's nodeUIDGen has given
  document,            \* SaveScene's TiXmlDocument: the node elements
  documentVersion,     \* FileVersion of its Version element, 0 while it has none
  idx,                 \* position of the write loop in sceneNodes
  staged,              \* the index.xml lying in the staging directory of a load
  result,              \* the value the call returned
  hist,                \* what happened in the running call (for the properties)
  lastClean,           \* what the caller saw of the previous call, a clean load
  lastLoad,            \* the same together with the unzip errors of that load
  lastSaved,           \* the node set of the previous call, a save without failures
  callsLeft,           \* number of calls the caller still makes
  threads,             \* the SaveScene calls that run at the same time, by thread
  files,               \* the files in the directories, with the thread that wrote each
  archives,            \* what the destination of each thread holds
  baseData             \* the write loop seen one serializer candidate at a time

vars == <<fsDirs, destFile, m_WorkingDirectory, m_UnzipErrors, m_FailedNodes,
          m_FailedProperties, callerStorage, freshStorage, dsSources,
          localeMangles, pc, args, storage, nodeUIDs, sourceUIDs, nodeUIDGen, document,
          documentVersion,
          idx, staged, result, hist, lastClean, lastLoad, lastSaved, callsLeft,
          threads, files, archives, baseData>>

-----------------------------------------------------------------------------
(* Bounds of the model *)

\* number of SaveScene/LoadScene calls made one after the other on the engine
MaxCalls == 2
\* largest number of elements of the node set given to SaveScene
MaxLen == 2
\* largest number of entries of an archive that fail to unzip
MaxUnzip == 1

-----------------------------------------------------------------------------
(* Values *)

NULL == "NULL"
True == "true"
False == "false"
None == "none"
EmptyPath == ""

\* The nodes a caller can hand to SaveScene.
Nodes == {"n1", "n2", "n3"}

\* DataNode::GetName, as its characters.
GetName(n) ==
  CASE n = "n1" -> <<"i", "m", "g">>
    [] n = "n2" -> <<"s", " ", "1">>
    [] n = "n3" -> <<"1", "x">>

Digits == {"0", "1", "2", "3", "4", "5", "6", "7", "8", "9"}
IdentChars == Digits \cup {"i", "m", "g", "s", "x", "_"}

\* itksys::SystemTools::MakeCindentifier: a leading digit gets a "_" in front,
\* every character outside [A-Za-z0-9_] becomes "_".
MakeCindentifier(s) ==
  LET t == IF s # <<>> /\ s[1] \in Digits THEN <<"_">> \o s ELSE s
  IN  [i \in 1..Len(t) |-> IF t[i] \in IdentChars THEN t[i] ELSE "_"]

\* DataNode::GetData()->GetNameOfClass(), NULL for a node without data.
GetData(n) ==
  CASE n = "n1" -> "Image"
    [] n = "n2" -> "Surface"
    [] n = "n3" -> NULL

\* BaseData::GetPropertyList() is non-empty.
HasDataProperties(n) == n = "n1"

\* DataNode::GetPropertyListNames: the render windows with a list of their own.
GetPropertyListNames(n) == IF n = "n2" THEN <<"rw1">> ELSE <<>>

\* DataNode::GetPropertyList(renderWindowName) is non-empty.
HasWindowProperties(n, w) == n = "n2" /\ w = "rw1"

\* DataNode::GetPropertyList() (the render window independent list) is non-empty.
HasNodeProperties(n) == n = "n3"

\* The keys a property list can hold.
PropertyKeys == {"color"}

\* The node sets SaveScene can be given: vectors of node pointers, NULL
\* pointers among them (the NULL node set is the argument sceneNodesNull).
RECURSIVE SeqsUpTo(_, _)
SeqsUpTo(S, n) ==
  IF n = 0 THEN {<<>>}
  ELSE LET shorter == SeqsUpTo(S, n - 1)
       IN  shorter \cup {Append(s, x) : s \in {t \in shorter : Len(t) = n - 1}, x \in S}

SceneNodeSets == SeqsUpTo(Nodes \cup {NULL}, MaxLen)

\* The number of entries of sceneNodes that are node n.
Occurrences(sceneNodes, n) ==
  Cardinality({i \in DOMAIN sceneNodes : sceneNodes[i] = n})

\* A SetOfObjects is a vector: the node sets of MaxLen + 1 entries in which
\* a node is entered more than once.
RepeatedNodeSets ==
  {s \in [1..(MaxLen + 1) -> Nodes \cup {NULL}] :
     \E n \in Nodes : Occurrences(s, n) > 1}

\* The direct predecessors of each node in the storage given to SaveScene.
DefaultSources == [n \in Nodes |->
  CASE n = "n1" -> <<>>
    [] n = "n2" -> <<"n1">>
    [] n = "n3" -> <<"n2", "n1">>]

\* The file name at the destination, and the directory names the two
\* candidates of CreateEmptyTempDirectory can get.
DestName == "scene.mitk"
TempCandidates == {"T1"}
OptionCandidates == {"O1"}
\* The paths with non-ASCII characters: those under the option directory,
\* which lies in the user's home directory.
NonAsciiPaths == OptionCandidates

\* A node that is in the caller's storage before any load.
PreNode == [element |-> 0, UID |-> 0, type |-> "Image", sources |-> {}]

\* The FileVersion attribute of the Version element (line 257), and the value
\* that stands for a document or file without a Version element.
FileVersion == 1
NoVersion == 0

Absent == [kind |-> "absent", doc |-> <<>>, version |-> NoVersion]
Archive(kind, doc, version) == [kind |-> kind, doc |-> doc, version |-> version]

\* A value of `hist` at the start of a call.
NoHist == [op |-> None, hard |-> None, created |-> None, attempted |-> FALSE,
           preDest |-> Absent, failedNodes |-> {}, failedProps |-> {},
           manifest |-> FALSE, packed |-> FALSE, cleanup |-> None,
           preStorage |-> {}, afterHard |-> FALSE,
           unzipped |-> FALSE, unzipFailures |-> 0,
           clear |-> None, parsed |-> FALSE, read |-> {},
           propsThrown |-> FALSE, failing |-> {}, tries |-> 0]

\* `hist` when a further stage of the call starts.
Stage(h) == [h EXCEPT !.afterHard = @ \/ h.hard # None]


-----------------------------------------------------------------------------
(* Helpers of the file system and of the library calls *)

\* Poco::Path::transcode: the path in the default code page; a path with
\* non-ASCII characters comes back as other bytes where the code page is not
\* UTF-8, every other path unchanged.
Transcode(p) == IF localeMangles /\ p \in NonAsciiPaths THEN "mangled" ELSE p

Range(s) == {s[i] : i \in 1..Len(s)}

\* A removal that leaves the directory where it is.
RemoveTree_Kept(dirs, path) == dirs

\* Poco::File(path).remove(true) that raises no error: the directory and all
\* it holds are gone.
RemoveTree(dirs, path) == dirs \ {path}

\* CreateEmptyTempDirectory that asks for the second directory once more
\* when it exists already.
CreateEmptyTempDirectory_Retry(dirs, c1, c2, e1, e2) ==
  IF c1 \notin dirs
  THEN IF e1 = "throws"
       THEN [ret |-> EmptyPath, dirs |-> dirs, created |-> None, tries |-> 1]
       ELSE [ret |-> c1, dirs |-> dirs \cup {c1}, created |-> c1, tries |-> 1]
  ELSE IF c2 \notin dirs
       THEN IF e2 = "throws"
            THEN [ret |-> EmptyPath, dirs |-> dirs, created |-> None, tries |-> 2]
            ELSE [ret |-> c2, dirs |-> dirs \cup {c2}, created |-> c2, tries |-> 2]
       ELSE [ret |-> c2, dirs |-> dirs, created |-> None, tries |-> 3]

\* CreateEmptyTempDirectory.  c1 and c2 are the two names the UID generator
\* gives, e1 and e2 say whether Poco::File::createDirectory raises an error on
\* them; createDirectory returns false for a directory that exists already.
\* The result: the returned path, the directories then on disk, the
\* directory the call created (None when it created none) and the number of
\* calls of createDirectory.
CreateEmptyTempDirectory(dirs, c1, c2, e1, e2) ==
  IF c1 \notin dirs
  THEN IF e1 = "throws"
       THEN [ret |-> EmptyPath, dirs |-> dirs, created |-> None, tries |-> 1]
       ELSE [ret |-> c1, dirs |-> dirs \cup {c1}, created |-> c1, tries |-> 1]
  ELSE IF c2 \notin dirs
       THEN IF e2 = "throws"
            THEN [ret |-> EmptyPath, dirs |-> dirs, created |-> None, tries |-> 2]
            ELSE [ret |-> c2, dirs |-> dirs \cup {c2}, created |-> c2, tries |-> 2]
       ELSE \* "Second directory also already exists": logged, path returned
            [ret |-> c2, dirs |-> dirs, created |-> None, tries |-> 2]

\* UIDGenerator::GetUID of nodeUIDGen: the k-th identifier it hands out is k;
\* 0 stands for the empty string.
GetUID(gen) == gen + 1

\* DataStorage::GetSources(node): the direct predecessors, in iteration order.
GetSources(node) == dsSources[node]

\* std::map::operator[] on nodeUIDs: the stored string, empty for a new key.
UIDAt(uids, n) == IF n \in DOMAIN uids THEN uids[n] ELSE 0

\* The loop over sourceObjects without the test of line 305: every source
\* gets an identifier and is stored as a dependency.
RECURSIVE SourceLoop_Unfiltered(_, _, _, _, _)
SourceLoop_Unfiltered(sceneNodes, node, sources, j, m) ==
  IF j > Len(sources) THEN m
  ELSE LET src == sources[j]
           m1 == IF UIDAt(m.uids, src) = 0
                 THEN [m EXCEPT !.uids = (src :> GetUID(m.gen)) @@ m.uids,
                                !.gen = GetUID(m.gen)]
                 ELSE m
           old == IF node \in DOMAIN m1.srcs THEN m1.srcs[node] ELSE <<>>
           m2 == [m1 EXCEPT !.srcs = (node :> Append(old, m1.uids[src])) @@ m1.srcs]
       IN  SourceLoop_Unfiltered(sceneNodes, node, sources, j + 1, m2)

\* The loop over sourceObjects without the push_back of line 315: the
\* sources that are saved get their identifiers, no dependency is stored.
RECURSIVE SourceLoop_NotStored(_, _, _, _, _)
SourceLoop_NotStored(sceneNodes, node, sources, j, m) ==
  IF j > Len(sources) THEN m
  ELSE LET src == sources[j]
       IN  IF src \notin Range(sceneNodes) \/ UIDAt(m.uids, src) # 0
           THEN SourceLoop_NotStored(sceneNodes, node, sources, j + 1, m)
           ELSE SourceLoop_NotStored(sceneNodes, node, sources, j + 1,
                  [m EXCEPT !.uids = (src :> GetUID(m.gen)) @@ m.uids,
                            !.gen = GetUID(m.gen)])

\* The loop over sourceObjects of one node (lines 301-316).
RECURSIVE SourceLoop(_, _, _, _, _)
SourceLoop(sceneNodes, node, sources, j, m) ==
  IF j > Len(sources) THEN m
  ELSE LET src == sources[j]
       IN  IF src \notin Range(sceneNodes)
           THEN SourceLoop(sceneNodes, node, sources, j + 1, m)
           ELSE LET m1 == IF UIDAt(m.uids, src) = 0
                          THEN [m EXCEPT !.uids = (src :> GetUID(m.gen)) @@ m.uids,
                                         !.gen = GetUID(m.gen)]
                          ELSE m
                    old == IF node \in DOMAIN m1.srcs THEN m1.srcs[node] ELSE <<>>
                    m2 == [m1 EXCEPT !.srcs =
                             (node :> Append(old, m1.uids[src])) @@ m1.srcs]
                IN  SourceLoop(sceneNodes, node, sources, j + 1, m2)

\* The body of the first loop with the loop over the sources left out for a
\* node that has its dependency list already.
DependencyStep_ListOnce(sceneNodes, node, m) ==
  LET m1 == IF node \in DOMAIN m.srcs THEN m
            ELSE SourceLoop(sceneNodes, node, GetSources(node), 1, m)
  IN  IF UIDAt(m1.uids, node) = 0
      THEN [m1 EXCEPT !.uids = (node :> GetUID(m1.gen)) @@ m1.uids,
                      !.gen = GetUID(m1.gen)]
      ELSE m1

\* The body of the first loop with lines 318-321 moved before the loop over
\* the sources: the node gets its identifier before its sources get theirs.
DependencyStep_NodeFirst(sceneNodes, node, m) ==
  LET m0 == IF UIDAt(m.uids, node) = 0
            THEN [m EXCEPT !.uids = (node :> GetUID(m.gen)) @@ m.uids,
                           !.gen = GetUID(m.gen)]
            ELSE m
  IN  SourceLoop(sceneNodes, node, GetSources(node), 1, m0)

\* The body of the first loop with the test of line 318 left out: the node
\* gets a new identifier in its own pass whether it has one or not.
DependencyStep_Reassign(sceneNodes, node, m) ==
  LET m1 == SourceLoop(sceneNodes, node, GetSources(node), 1, m)
  IN  [m1 EXCEPT !.uids = (node :> GetUID(m1.gen)) @@ m1.uids,
                 !.gen = GetUID(m1.gen)]

\* The body of the first loop over sceneNodes for a node that is not NULL
\* (lines 299-321): identifiers for its sources that are saved, its
\* dependency list, and an identifier for the node itself.
DependencyStep(sceneNodes, node, m) ==
  LET m1 == SourceLoop(sceneNodes, node, GetSources(node), 1, m)
  IN  IF UIDAt(m1.uids, node) = 0
      THEN [m1 EXCEPT !.uids = (node :> GetUID(m1.gen)) @@ m1.uids,
                      !.gen = GetUID(m1.gen)]
      ELSE m1

\* The first loop over sceneNodes (lines 293-322): the maps nodeUIDs and
\* sourceUIDs, and the number of identifiers generated.
RECURSIVE DependencyLoop(_, _, _)
DependencyLoop(sceneNodes, i, m) ==
  IF i > Len(sceneNodes) THEN m
  ELSE LET node == sceneNodes[i]
       IN  IF node = NULL
           THEN DependencyLoop(sceneNodes, i + 1, m)
           ELSE DependencyLoop(sceneNodes, i + 1, DependencyStep(sceneNodes, node, m))

EmptyMap == [n \in {} |-> 0]
NoMaps == [uids |-> EmptyMap, srcs |-> EmptyMap, gen |-> 0]

NoFile == <<>>

\* No write loop is followed candidate by candidate.
NoBaseData ==
  [at |-> "idle", sceneNodes |-> <<>>, iter |-> 0, cands |-> <<>>, candidate |-> 0,
   serialized |-> <<>>, error |-> FALSE, file |-> NoFile, done |-> <<>>]

\* What itk::ObjectFactoryBase::CreateAllInstance can return for a serializer
\* name: objects that are a BaseDataSerializer whose Serialize writes a file
\* ("writes") or raises an error ("throws"), and objects of another class.
CandidateKinds == {"writes", "throws", "other"}
MaxCandidates == 2
CandidateLists == SeqsUpTo(CandidateKinds, MaxCandidates)

\* The first BaseDataSerializer of the list, 0 when it holds none.
RECURSIVE FirstSerializer(_, _)
FirstSerializer(cands, i) ==
  IF i > Len(cands) THEN 0
  ELSE IF cands[i] # "other" THEN i ELSE FirstSerializer(cands, i + 1)

\* SaveBaseData without the type attribute of line 483.
SaveBaseData_Untyped(data, filenamehint, cands) ==
  LET k == FirstSerializer(cands, 1)
      element == [type |-> NULL, file |-> NoFile, properties |-> <<>>]
  IN  IF k # 0 /\ cands[k] = "writes"
      THEN [element |-> [element EXCEPT !.file = filenamehint], error |-> FALSE]
      ELSE [element |-> element, error |-> TRUE]

\* SaveBaseData: the "data" element and the error flag.
SaveBaseData(data, filenamehint, cands) ==
  LET k == FirstSerializer(cands, 1)
      element == [type |-> data, file |-> NoFile, properties |-> <<>>]
  IN  IF k # 0 /\ cands[k] = "writes"
      THEN [element |-> [element EXCEPT !.file = filenamehint], error |-> FALSE]
      ELSE [element |-> element, error |-> TRUE]

\* What PropertyListSerializer::Serialize can do: raise an error, or write the
\* file and leave a list of failed properties (NULL for no list).
PropertyOutcomes ==
  {[throws |-> TRUE, list |-> FALSE, failed |-> {}],
   [throws |-> FALSE, list |-> FALSE, failed |-> {}]} \cup
  {[throws |-> FALSE, list |-> TRUE, failed |-> f] : f \in SUBSET PropertyKeys}
NoOutcome == [throws |-> FALSE, list |-> FALSE, failed |-> {}]

\* SavePropertyList: the "properties" element, and m_FailedProperties after
\* ConcatenatePropertyList.
SavePropertyList(failedProperties, filenamehint, o) ==
  IF o.throws
  THEN [element |-> [file |-> NoFile, renderwindow |-> None],
        failed |-> failedProperties]
  ELSE [element |-> [file |-> filenamehint, renderwindow |-> None],
        failed |-> IF ~o.list THEN failedProperties
                   ELSE failedProperties \cup o.failed]

-----------------------------------------------------------------------------
(* SaveScene *)

SaveLocals == <<nodeUIDs, sourceUIDs, nodeUIDGen, document, documentVersion, idx>>
Members == <<m_WorkingDirectory, m_UnzipErrors, m_FailedNodes, m_FailedProperties>>
Storages == <<callerStorage, freshStorage, storage>>
Concurrent == <<threads, files, archives>>
World == <<dsSources, localeMangles, lastClean, lastLoad, lastSaved, callsLeft,
           Concurrent, baseData>>

\* A return statement of the running call.
ReturnValue(v) == pc' = "returned" /\ result' = v

\* Lines 217-244: the three input checks, then the reset of the failure lists
\* and the start of the document.
\* The input checks without the test of the file name.
InputsGiven_NoFilenameTest(sceneNodesNull, st, filename) ==
  ~sceneNodesNull /\ st # NULL

\* Lines 221-237: sceneNodes, storage and filename are given.
InputsGiven(sceneNodesNull, st, filename) ==
  ~sceneNodesNull /\ st # NULL /\ filename # ""

\* Lines 217-258: a call of SaveScene with a node set out of nodeSets.
SaveSceneCall(nodeSets) ==
  /\ pc = "idle" /\ callsLeft > 0
  /\ \E sceneNodesNull \in BOOLEAN, sceneNodes \in nodeSets \cup {<<>>},
        st \in {NULL, "ds"}, filename \in {"", DestName} :
       /\ sceneNodesNull => sceneNodes = <<>>
       /\ args' = [op |-> "save", sceneNodesNull |-> sceneNodesNull,
                   sceneNodes |-> sceneNodes, storage |-> st, filename |-> filename]
       /\ IF ~InputsGiven(sceneNodesNull, st, filename)
          THEN /\ ReturnValue(False)
               /\ hist' = [NoHist EXCEPT !.op = "save", !.hard = "input",
                                         !.preDest = destFile]
               /\ UNCHANGED <<m_FailedNodes, m_FailedProperties, document,
                              documentVersion>>
          ELSE /\ m_FailedNodes' = <<>>
               /\ m_FailedProperties' = {}
               /\ document' = <<>>
               /\ documentVersion' = FileVersion
               /\ pc' = "s_staging"
               /\ hist' = [NoHist EXCEPT !.op = "save", !.preDest = destFile]
               /\ UNCHANGED result
  /\ UNCHANGED <<fsDirs, destFile, m_WorkingDirectory, m_UnzipErrors, Storages,
                 World, nodeUIDs, sourceUIDs, nodeUIDGen, idx, staged>>

SaveSceneBegin == SaveSceneCall(SceneNodeSets)

\* Lines 275-293: the staging directory, then the empty maps and the start of
\* the first loop.
SaveStaging ==
  /\ pc = "s_staging"
  /\ \E c1 \in TempCandidates, c2 \in OptionCandidates, e1, e2 \in {"ok", "throws"} :
       LET r == CreateEmptyTempDirectory(fsDirs, c1, c2, e1, e2)
       IN  /\ m_WorkingDirectory' = r.ret
           /\ fsDirs' = r.dirs
           /\ hist' = [hist EXCEPT !.attempted = TRUE, !.created = r.created,
                         !.tries = r.tries,
                         !.hard = IF r.created = None THEN "staging" ELSE @]
           /\ IF r.ret = EmptyPath
              THEN ReturnValue(False) /\ UNCHANGED idx
              ELSE pc' = "s_uids" /\ idx' = 1 /\ UNCHANGED result
  /\ UNCHANGED <<destFile, m_UnzipErrors, m_FailedNodes, m_FailedProperties,
                 Storages, World, args, nodeUIDs, sourceUIDs, nodeUIDGen,
                 document, documentVersion, staged>>

\* Lines 284-322: identifiers and dependency lists, one pass of the first
\* loop for sceneNodes[idx]; after the last pass the write loop starts.
SaveDependencies ==
  /\ pc = "s_uids"
  /\ IF idx <= Len(args.sceneNodes)
     THEN /\ LET node == args.sceneNodes[idx]
                 m == [uids |-> nodeUIDs, srcs |-> sourceUIDs, gen |-> nodeUIDGen]
                 after == IF node = NULL THEN m
                          ELSE DependencyStep(args.sceneNodes, node, m)
             IN  /\ nodeUIDs' = after.uids
                 /\ sourceUIDs' = after.srcs
                 /\ nodeUIDGen' = after.gen
          /\ idx' = idx + 1
          /\ UNCHANGED pc
     ELSE /\ idx' = 1
          /\ pc' = "s_write"
          /\ UNCHANGED <<nodeUIDs, sourceUIDs, nodeUIDGen>>
  /\ hist' = Stage(hist)
  /\ UNCHANGED <<fsDirs, destFile, Members, Storages, World, args, document,
                 documentVersion, staged, result>>

\* The inputs of one pass of the write loop that the node makes use of.
DataOutcomes(node) == IF GetData(node) # NULL THEN CandidateLists ELSE {<<>>}
DataPropertyOutcomes(node) ==
  IF GetData(node) # NULL /\ HasDataProperties(node) THEN PropertyOutcomes ELSE {NoOutcome}
WindowOutcomes(node) ==
  IF \E i \in 1..Len(GetPropertyListNames(node)) :
       HasWindowProperties(node, GetPropertyListNames(node)[i])
  THEN PropertyOutcomes ELSE {NoOutcome}
NodePropertyOutcomes(node) ==
  IF HasNodeProperties(node) THEN PropertyOutcomes ELSE {NoOutcome}

Hint(suffix) == <<"-">> \o suffix

\* The lists of the render windows (lines 382-393), from window i on.
RECURSIVE WindowLoop(_, _, _, _, _, _)
WindowLoop(node, names, i, o, failed, elements) ==
  IF i > Len(names) THEN [elements |-> elements, failed |-> failed]
  ELSE IF HasWindowProperties(node, names[i])
       THEN LET r == SavePropertyList(failed,
                       MakeCindentifier(GetName(node)) \o Hint(<<names[i]>>), o)
            IN  WindowLoop(node, names, i + 1, o, r.failed,
                  Append(elements, [r.element EXCEPT !.renderwindow = names[i]]))
       ELSE WindowLoop(node, names, i + 1, o, failed, elements)

\* Whether the serializers found for a payload leave it without a file: there
\* is none among them, or the one that is asked raises an error.
PayloadFails(cands) ==
  FirstSerializer(cands, 1) = 0 \/ cands[FirstSerializer(cands, 1)] = "throws"

\* A node element without the attribute of line 341.
UIDAttribute_Missing(uids, node) == 0

\* Lines 337-342: the UID attribute of the node element, the identifier
\* nodeUIDs holds for the node (0 for an element without the attribute).
UIDAttribute(uids, node) == IF node \in DOMAIN uids THEN uids[node] ELSE 0

\* Lines 329-403, the body of the write loop for a node that is not NULL: the
\* "node" element, whether the node goes to m_FailedNodes, and
\* m_FailedProperties afterwards.
WriteNode(node, uids, srcs, failedProperties, cands, dp, wp, np) ==
  LET filenameHint == MakeCindentifier(GetName(node))
      data == GetData(node)
      base == SaveBaseData(data, filenameHint, cands)
      dprops == SavePropertyList(failedProperties,
                  filenameHint \o Hint(<<"d", "a", "t", "a">>), dp)
      withData == data # NULL
      withDataProps == withData /\ HasDataProperties(node)
      failed1 == IF withDataProps THEN dprops.failed ELSE failedProperties
      dataElement ==
        IF ~withData THEN <<>>
        ELSE IF withDataProps
             THEN <<[base.element EXCEPT !.properties = <<dprops.element>>]>>
             ELSE <<base.element>>
      windows == WindowLoop(node, GetPropertyListNames(node), 1, wp, failed1, <<>>)
      nprops == SavePropertyList(windows.failed,
                  filenameHint \o Hint(<<"n", "o", "d", "e">>), np)
  IN  [element |->
         [UID |-> UIDAttribute(uids, node),
          sources |-> IF node \in DOMAIN srcs THEN srcs[node] ELSE <<>>,
          data |-> dataElement,
          windows |-> windows.elements,
          properties |-> IF HasNodeProperties(node) THEN <<nprops.element>>
                         ELSE <<>>],
       error |-> withData /\ base.error,
       failed |-> IF HasNodeProperties(node) THEN nprops.failed ELSE windows.failed]

\* Lines 325-411: one pass of the write loop, for sceneNodes[idx].
SaveNode ==
  /\ pc = "s_write" /\ idx <= Len(args.sceneNodes)
  /\ LET node == args.sceneNodes[idx]
     IN  IF node = NULL
         THEN UNCHANGED <<document, m_FailedNodes, m_FailedProperties, hist>>
         ELSE \E cands \in DataOutcomes(node), dp \in DataPropertyOutcomes(node),
                 wp \in WindowOutcomes(node), np \in NodePropertyOutcomes(node) :
           LET w == WriteNode(node, nodeUIDs, sourceUIDs, m_FailedProperties,
                              cands, dp, wp, np)
               reported == UNION {IF o.throws \/ ~o.list THEN {} ELSE o.failed :
                                  o \in {dp, wp, np}}
           IN  /\ m_FailedNodes' = IF w.error THEN Append(m_FailedNodes, node)
                                   ELSE m_FailedNodes
               /\ m_FailedProperties' = w.failed
               /\ document' = Append(document, w.element)
               /\ hist' = [Stage(hist) EXCEPT
                     !.failedNodes = IF GetData(node) # NULL /\ PayloadFails(cands)
                                     THEN @ \cup {node} ELSE @,
                     !.failedProps = @ \cup reported,
                     !.propsThrown = @ \/ dp.throws \/ wp.throws \/ np.throws]
  /\ idx' = idx + 1
  /\ UNCHANGED <<fsDirs, destFile, m_WorkingDirectory, m_UnzipErrors, Storages,
                 World, pc, args, nodeUIDs, sourceUIDs, nodeUIDGen, documentVersion,
                 staged, result>>

\* The result of SaveFile not looked at.
ManifestSaved_Ignored(written) == TRUE

\* Line 416, the test of document.SaveFile: the save goes on to the archive
\* when index.xml was written.
ManifestSaved(written) == written

\* Lines 414-421: the end of the write loop and document.SaveFile on
\* index.xml in the transcoded working directory.
SaveManifest ==
  /\ pc = "s_write" /\ idx > Len(args.sceneNodes)
  /\ \E written \in BOOLEAN :
       /\ written => Transcode(m_WorkingDirectory) \in fsDirs
       /\ IF ManifestSaved(written)
          THEN /\ pc' = "s_pack"
               /\ hist' = [Stage(hist) EXCEPT !.manifest = written]
               /\ UNCHANGED result
          ELSE /\ ReturnValue(False)
               /\ hist' = [Stage(hist) EXCEPT !.hard = IF @ = None THEN "manifest" ELSE @]
  /\ UNCHANGED <<fsDirs, destFile, Members, Storages, World, args, SaveLocals,
                 staged>>

\* A compressor that is not closed: the file lacks the end of the archive.
Compress_NotClosed(doc, version) == Archive("partial", <<>>, NoVersion)

\* Lines 441-444, Poco::Zip::Compress with addRecursive and close that raise
\* no error: the file holds index.xml and the files it refers to.
Compress(doc, version) == Archive("complete", doc, version)

\* Lines 424-445 and 457-461: the old destination file is removed, the
\* destination is opened and the working directory is packed into it.
SavePack ==
  /\ pc = "s_pack"
  /\ \E remove \in {"ok", "throws"}, open \in {"ok", "fails"}, zip \in {"ok", "throws"} :
       IF destFile.kind # "absent" /\ remove = "throws"
       THEN /\ ReturnValue(False)
            /\ hist' = [Stage(hist) EXCEPT !.hard = IF @ = None THEN "pack" ELSE @]
            /\ UNCHANGED destFile
       ELSE IF open = "fails"
            THEN /\ destFile' = Absent
                 /\ ReturnValue(False)
                 /\ hist' = [Stage(hist) EXCEPT !.hard = IF @ = None THEN "open" ELSE @]
            ELSE IF zip = "throws"
                 THEN /\ destFile' = Archive("partial", <<>>, NoVersion)
                      /\ ReturnValue(False)
                      /\ hist' = [Stage(hist) EXCEPT !.hard = IF @ = None THEN "pack" ELSE @]
                 ELSE /\ destFile' = Compress(document, documentVersion)
                      /\ pc' = "s_cleanup"
                      /\ hist' = [Stage(hist) EXCEPT !.packed = TRUE]
                      /\ UNCHANGED result
  /\ UNCHANGED <<fsDirs, Members, Storages, World, args, SaveLocals, staged>>

\* Lines 446-462: the working directory is removed; an error of the removal
\* ends the save with false.
SaveCleanup ==
  /\ pc = "s_cleanup"
  /\ \E remove \in {"ok", "throws"} :
       /\ remove = "ok" => m_WorkingDirectory \in fsDirs
       /\ hist' = [Stage(hist) EXCEPT !.cleanup = remove]
       /\ IF remove = "ok"
          THEN fsDirs' = RemoveTree(fsDirs, m_WorkingDirectory) /\ ReturnValue(True)
          ELSE UNCHANGED fsDirs /\ ReturnValue(False)
  /\ UNCHANGED <<destFile, Members, Storages, World, args, SaveLocals, staged>>

-----------------------------------------------------------------------------
(* LoadScene *)

\* The storage taken as the caller gave it, without the test for NULL.
PrepareStorage_Unchecked(pStorage) == pStorage

\* Lines 91-95 and 167-171: the caller's storage, or a new one.
PrepareStorage(pStorage) == IF pStorage = NULL THEN "fresh" ELSE pStorage

Content(st) == IF st = "fresh" THEN freshStorage ELSE callerStorage

\* The entries of an archive: index.xml and one file per file reference.
FileCount(e) ==
  Cardinality({i \in 1..Len(e.data) : e.data[i].file # NoFile})
  + Cardinality({i \in 1..Len(e.data) :
       \E j \in 1..Len(e.data[i].properties) : e.data[i].properties[j].file # NoFile})
  + Cardinality({i \in 1..Len(e.windows) : e.windows[i].file # NoFile})
  + Cardinality({i \in 1..Len(e.properties) : e.properties[i].file # NoFile})

RECURSIVE Entries(_, _)
Entries(doc, i) == IF i > Len(doc) THEN 1 ELSE FileCount(doc[i]) + Entries(doc, i + 1)

\* Lines 84-118: the storage, the filename check, the open of the archive.
LoadSceneBegin ==
  /\ pc = "idle" /\ callsLeft > 0
  /\ \E filename \in {"", DestName}, pStorage \in {NULL, "caller"},
        clearStorageFirst \in BOOLEAN, good \in BOOLEAN :
       /\ good => destFile.kind # "absent"
       /\ args' = [op |-> "load", filename |-> filename, pStorage |-> pStorage,
                   clearStorageFirst |-> clearStorageFirst]
       /\ storage' = PrepareStorage(pStorage)
       /\ freshStorage' = IF pStorage = NULL THEN {} ELSE freshStorage
       /\ IF filename = "" \/ ~good
          THEN /\ ReturnValue(storage')
               /\ hist' = [NoHist EXCEPT !.op = "load", !.preDest = destFile,
                             !.hard = IF filename = "" THEN "input" ELSE "open",
                             !.preStorage = IF pStorage = NULL THEN {}
                                            ELSE callerStorage]
          ELSE /\ pc' = "l_staging"
               /\ hist' = [NoHist EXCEPT !.op = "load", !.preDest = destFile,
                             !.preStorage = IF pStorage = NULL THEN {}
                                            ELSE callerStorage]
               /\ UNCHANGED result
  /\ UNCHANGED <<fsDirs, destFile, Members, callerStorage, World, SaveLocals,
                 staged>>

\* Lines 112-118: the staging directory.
LoadStaging ==
  /\ pc = "l_staging"
  /\ \E c1 \in TempCandidates, c2 \in OptionCandidates, e1, e2 \in {"ok", "throws"} :
       LET r == CreateEmptyTempDirectory(fsDirs, c1, c2, e1, e2)
       IN  /\ m_WorkingDirectory' = r.ret
           /\ fsDirs' = r.dirs
           /\ hist' = [hist EXCEPT !.attempted = TRUE, !.created = r.created,
                         !.tries = r.tries,
                         !.hard = IF r.created = None THEN "staging" ELSE @]
           /\ IF r.ret = EmptyPath
              THEN ReturnValue(storage)
              ELSE pc' = "l_unzip" /\ UNCHANGED result
  /\ UNCHANGED <<destFile, m_UnzipErrors, m_FailedNodes, m_FailedProperties,
                 Storages, World, args, SaveLocals, staged>>

\* OnUnzipError: one more entry failed.
OnUnzipError(errors) == errors + 1

RECURSIVE CountErrors(_, _)
CountErrors(errors, n) == IF n = 0 THEN errors ELSE CountErrors(OnUnzipError(errors), n - 1)

\* Lines 120-140: the archive is unpacked into the working directory, errors
\* are counted, and the working directory is transcoded.
LoadUnzip ==
  /\ pc = "l_unzip"
  /\ \E failures \in 0..MaxUnzip, index \in BOOLEAN :
       /\ index => destFile.kind = "complete"
       /\ failures <= Entries(destFile.doc, 1)
       /\ (index /\ failures > 0) => Entries(destFile.doc, 1) > failures
       /\ (~index /\ destFile.kind = "complete") => failures > 0
       /\ m_UnzipErrors' = CountErrors(0, failures)
       /\ staged' = [index |-> index, doc |-> IF index THEN destFile.doc ELSE <<>>]
       /\ hist' = [hist EXCEPT !.unzipped = TRUE, !.unzipFailures = failures]
  /\ m_WorkingDirectory' = Transcode(m_WorkingDirectory)
  /\ pc' = "l_load"
  /\ UNCHANGED <<fsDirs, destFile, m_FailedNodes, m_FailedProperties, Storages,
                 World, args, SaveLocals, result>>

\* SceneReader::LoadScene: one node per node element whose construction does
\* not fail, with its identifier, the type of its data and its sources.
ReadNodes(doc, failing) ==
  {[element |-> i, UID |-> doc[i].UID,
    type |-> IF doc[i].data = <<>> THEN NULL ELSE doc[i].data[1].type,
    sources |-> Range(doc[i].sources)] : i \in (1..Len(doc)) \ failing}

\* A clearing that removes the nodes only when Remove raises an error.
ClearStorage_OnError(content, outcome, remaining) ==
  IF outcome = "ok" THEN content ELSE {}

\* A clearing that leaves the storage as it is.
ClearStorage_Skipped(content, outcome, remaining) == content

\* Lines 173-183, storage->Remove(storage->GetAll()): the storage is empty
\* afterwards; when Remove raises an error, which is logged, the nodes in
\* `remaining` are still in it.
ClearStorage(content, outcome, remaining) ==
  IF outcome = "ok" THEN {} ELSE remaining

\* Lines 160-215, LoadSceneUnzipped as LoadScene calls it (line 143): the
\* storage is cleared when asked, index.xml is parsed, the reader fills the
\* storage.
LoadSceneUnzipped ==
  /\ pc = "l_load"
  /\ \E clear \in {"ok", "throws"}, remaining \in SUBSET Content(PrepareStorage(storage)),
        parsed \in BOOLEAN :
       LET st == PrepareStorage(storage)
           kept == IF args.clearStorageFirst
                   THEN ClearStorage(Content(st), clear, remaining)
                   ELSE Content(st)
       IN  /\ parsed => staged.index /\ m_WorkingDirectory \in fsDirs
           /\ ~args.clearStorageFirst => clear = "ok"
           /\ clear = "ok" => remaining = Content(st)
           /\ \E failing \in SUBSET (1..(IF parsed THEN Len(staged.doc) ELSE 0)) :
                LET read == IF parsed THEN ReadNodes(staged.doc, failing) ELSE {}
                    after == kept \cup read
                IN  /\ callerStorage' = IF st = "fresh" THEN callerStorage ELSE after
                    /\ freshStorage' = IF st = "fresh" THEN after ELSE freshStorage
                    /\ hist' = [hist EXCEPT
                          !.hard = IF ~parsed /\ @ = None THEN "manifest" ELSE @,
                          !.clear = IF args.clearStorageFirst THEN clear ELSE None,
                          !.parsed = parsed, !.read = read, !.failing = failing]
           /\ storage' = st
  /\ pc' = "l_cleanup"
  /\ UNCHANGED <<fsDirs, destFile, Members, World, args, SaveLocals, staged, result>>

\* Lines 145-157: the working directory is removed, an error of the removal
\* is logged, and the storage is returned.
LoadCleanup ==
  /\ pc = "l_cleanup"
  /\ \E remove \in {"ok", "throws"} :
       /\ remove = "ok" => m_WorkingDirectory \in fsDirs
       /\ hist' = [hist EXCEPT !.cleanup = remove]
       /\ fsDirs' = IF remove = "ok" THEN RemoveTree(fsDirs, m_WorkingDirectory)
                     ELSE fsDirs
  /\ ReturnValue(storage)
  /\ UNCHANGED <<destFile, Members, Storages, World, args, SaveLocals, staged>>

-----------------------------------------------------------------------------
(* The caller *)

\* GetFailedNodes and GetFailedProperties.
GetFailedNodes == m_FailedNodes
GetFailedProperties == m_FailedProperties

\* What a caller has in hand after LoadScene: the storage it gave and its
\* nodes before the call, the storage it got back and its nodes now, and the
\* failure lists of the engine.
Observed ==
  [pStorage |-> args.pStorage, clearStorageFirst |-> args.clearStorageFirst,
   before |-> hist.preStorage, result |-> result, after |-> Content(result),
   failedNodes |-> GetFailedNodes, failedProperties |-> GetFailedProperties]

NoArgs == [op |-> None]
NoIndex == [index |-> FALSE, doc |-> <<>>]

\* The caller takes the result; the engine is ready for the next call.
Return ==
  /\ pc = "returned"
  /\ pc' = "idle"
  /\ callsLeft' = callsLeft - 1
  /\ lastClean' = IF hist.op = "load" /\ hist.hard = None THEN {Observed} ELSE {}
  /\ lastSaved' = IF /\ hist.op = "save" /\ result = True /\ hist.failedNodes = {}
                      /\ hist.failedProps = {} /\ ~hist.propsThrown
                   THEN {args.sceneNodes} ELSE {}
  /\ lastLoad' = IF hist.op = "load" /\ hist.hard = None
                  THEN {[obs |-> Observed, unzipErrors |-> m_UnzipErrors]} ELSE {}
  /\ args' = NoArgs
  /\ storage' = NULL
  /\ freshStorage' = {}
  /\ nodeUIDs' = EmptyMap /\ sourceUIDs' = EmptyMap /\ nodeUIDGen' = 0
  /\ document' = <<>> /\ documentVersion' = NoVersion /\ idx' = 0
  /\ staged' = NoIndex
  /\ result' = None
  /\ hist' = NoHist
  /\ UNCHANGED <<fsDirs, destFile, Members, callerStorage, dsSources, localeMangles,
                 Concurrent, baseData>>

\* The document SaveScene writes for sceneNodes (none of them NULL) when
\* every serializer writes its file.
WrittenDocument(sceneNodes) ==
  LET m == DependencyLoop(sceneNodes, 1, NoMaps)
  IN  [i \in 1..Len(sceneNodes) |->
         WriteNode(sceneNodes[i], m.uids, m.srcs, {}, <<"writes">>,
                   NoOutcome, NoOutcome, NoOutcome).element]

\* What the destination can hold before the first call: nothing, the archive
\* of an empty scene, the archive of the scene <<n1, n2>>, or the rest of a
\* save that failed while packing.
StoredArchives ==
  {Absent, Archive("complete", <<>>, FileVersion),
   Archive("complete", WrittenDocument(<<"n1", "n2">>), FileVersion),
   Archive("partial", <<>>, NoVersion)}

\* A new engine; the temporary directories may hold directories with the
\* names the engine is going to choose.
InitEngine ==
  /\ fsDirs \in {{}, {"T1"}, {"T1", "O1"}}
  /\ m_WorkingDirectory = EmptyPath
  /\ m_UnzipErrors = 0
  /\ m_FailedNodes = <<>>
  /\ m_FailedProperties = {}
  /\ callerStorage = {PreNode}
  /\ freshStorage = {}
  /\ dsSources = DefaultSources
  /\ localeMangles \in BOOLEAN
  /\ pc = "idle"
  /\ args = NoArgs
  /\ storage = NULL
  /\ nodeUIDs = EmptyMap /\ sourceUIDs = EmptyMap /\ nodeUIDGen = 0
  /\ document = <<>> /\ documentVersion = NoVersion /\ idx = 0
  /\ staged = NoIndex
  /\ result = None
  /\ hist = NoHist
  /\ lastClean = {}
  /\ lastLoad = {}
  /\ lastSaved = {}
  /\ baseData = NoBaseData

\* No two calls run at the same time.
OneThread == threads = <<>> /\ files = {} /\ archives = <<>>

\* MaxCalls calls, one after the other, on one engine.
Init ==
  /\ InitEngine
  /\ OneThread
  /\ destFile \in {Absent, Archive("complete", <<>>, FileVersion),
                   Archive("complete", WrittenDocument(<<"n1">>), FileVersion)}
  /\ callsLeft = MaxCalls

\* One call on a new engine.
InitSingle ==
  /\ InitEngine
  /\ OneThread
  /\ destFile \in StoredArchives
  /\ callsLeft = 1

Next ==
  \/ SaveSceneBegin
  \/ SaveStaging
  \/ SaveDependencies
  \/ SaveNode
  \/ SaveManifest
  \/ SavePack
  \/ SaveCleanup
  \/ LoadSceneBegin
  \/ LoadStaging
  \/ LoadUnzip
  \/ LoadSceneUnzipped
  \/ LoadCleanup
  \/ Return

Spec == Init /\ [][Next]_vars

SingleCall == InitSingle /\ [][Next]_vars

\* The steps of a call that has started.  SaveScene and LoadScene have no
\* statement that waits: a step is taken once the external call it makes
\* (Poco, TinyXML, a serializer, the reader) has returned.
RunningCall ==
  \/ SaveStaging
  \/ SaveDependencies
  \/ SaveNode
  \/ SaveManifest
  \/ SavePack
  \/ SaveCleanup
  \/ LoadStaging
  \/ LoadUnzip
  \/ LoadSceneUnzipped
  \/ LoadCleanup

\* A new engine in a locale in which Poco::Path::transcode leaves the paths
\* as they are.
InitCallsReturn ==
  /\ InitSingle
  /\ ~localeMangles

\* One call in which every external call returns.
CallsReturn == InitCallsReturn /\ [][Next]_vars /\ WF_vars(RunningCall)

-----------------------------------------------------------------------------
(* A SaveScene call for a node set that holds a node more than once *)

SaveRepeatedBegin == SaveSceneCall(RepeatedNodeSets)

NextSaveRepeated ==
  \/ SaveRepeatedBegin
  \/ SaveStaging
  \/ SaveDependencies
  \/ SaveNode
  \/ SaveManifest
  \/ SavePack
  \/ SaveCleanup
  \/ Return

\* A new engine, empty temporary directories, nothing at the destination.
InitSaveRepeated ==
  /\ InitEngine
  /\ OneThread
  /\ fsDirs = {} /\ ~localeMangles
  /\ destFile = Absent
  /\ callsLeft = 1

SaveRepeated == InitSaveRepeated /\ [][NextSaveRepeated]_vars

-----------------------------------------------------------------------------
(* A SaveScene call and then a LoadScene call on one engine *)

\* The caller saves first.
FirstSave == callsLeft = 2 /\ SaveSceneBegin

\* The caller then loads from the destination of the save.
ThenLoad == callsLeft = 1 /\ LoadSceneBegin

\* A new engine, empty temporary directories, nothing at the destination.
InitSaveThenLoad ==
  /\ InitEngine
  /\ OneThread
  /\ fsDirs = {}
  /\ destFile = Absent
  /\ callsLeft = 2

NextSaveThenLoad ==
  \/ FirstSave
  \/ SaveStaging
  \/ SaveDependencies
  \/ SaveNode
  \/ SaveManifest
  \/ SavePack
  \/ SaveCleanup
  \/ ThenLoad
  \/ LoadStaging
  \/ LoadUnzip
  \/ LoadSceneUnzipped
  \/ LoadCleanup
  \/ Return

SaveThenLoad == InitSaveThenLoad /\ [][NextSaveThenLoad]_vars

-----------------------------------------------------------------------------
(* Two SaveScene calls at the same time on one engine *)

\* The threads, each in a SaveScene call of the same SceneIO object with a
\* destination of its own.
Threads == {1, 2}

\* What a read of m_WorkingDirectory can give when it is not ordered with a
\* write of another thread: neither the old nor the new string.
Torn == "torn"

\* The files the write loop writes for a node (lines 358-402), in the order
\* of the calls of SaveBaseData and SavePropertyList; payload marks the file
\* of SaveBaseData.
NodeFiles(node) ==
  LET hint == MakeCindentifier(GetName(node))
      names == GetPropertyListNames(node)
      windows == SelectSeq(names, LAMBDA w : HasWindowProperties(node, w))
  IN  (IF GetData(node) # NULL THEN <<[name |-> hint, payload |-> TRUE]>> ELSE <<>>)
      \o (IF GetData(node) # NULL /\ HasDataProperties(node)
          THEN <<[name |-> hint \o Hint(<<"d", "a", "t", "a">>), payload |-> FALSE]>>
          ELSE <<>>)
      \o [i \in 1..Len(windows) |->
            [name |-> hint \o Hint(<<windows[i]>>), payload |-> FALSE]]
      \o (IF HasNodeProperties(node)
          THEN <<[name |-> hint \o Hint(<<"n", "o", "d", "e">>), payload |-> FALSE]>>
          ELSE <<>>)

\* The node sets of the two calls.
ThreadNodeSets == {<<"n1">>, <<"n2">>, <<>>}

IndexXml == <<"i", "n", "d", "e", "x">>

NewThread(sceneNodes) ==
  [pc |-> "start", sceneNodes |-> sceneNodes,
   todo |-> IF sceneNodes = <<>> THEN <<>> ELSE NodeFiles(sceneNodes[1]),
   ret |-> EmptyPath, created |-> None, wrote |-> {}, packedFrom |-> None,
   removed |-> None, result |-> None]

\* The values a read of m_WorkingDirectory by thread t can give: the string
\* stored, or, while another thread is about to store the return value of
\* CreateEmptyTempDirectory (line 275), also that value or a torn string.
ReadWorkingDirectory(t) ==
  {m_WorkingDirectory} \cup
  UNION {{threads[u].ret, Torn} : u \in {v \in Threads \ {t} : threads[v].pc = "assign"}}

Sequential == <<pc, args, storage, SaveLocals, staged, result, hist, destFile,
                callerStorage, freshStorage, m_UnzipErrors, dsSources,
                localeMangles, lastClean, lastLoad, lastSaved, callsLeft,
                baseData>>

\* Lines 221-244 in thread t: the inputs are given, the failure lists are
\* replaced by new ones.
ThreadBegin(t) ==
  /\ threads[t].pc = "start"
  /\ m_FailedNodes' = <<>>
  /\ m_FailedProperties' = {}
  /\ threads' = [threads EXCEPT ![t].pc = "staging"]
  /\ UNCHANGED <<fsDirs, m_WorkingDirectory, files, archives, Sequential>>

\* Line 275 in thread t, the call: CreateEmptyTempDirectory has returned.
ThreadStaging(t) ==
  /\ threads[t].pc = "staging"
  /\ \E c1 \in TempCandidates, c2 \in OptionCandidates, e1, e2 \in {"ok", "throws"} :
       LET r == CreateEmptyTempDirectory(fsDirs, c1, c2, e1, e2)
       IN  /\ fsDirs' = r.dirs
           /\ threads' = [threads EXCEPT ![t].pc = "assign", ![t].ret = r.ret,
                                          ![t].created = r.created]
  /\ UNCHANGED <<m_WorkingDirectory, m_FailedNodes, m_FailedProperties, files,
                 archives, Sequential>>

\* Lines 275-280 in thread t, the assignment to the member and the test.
ThreadAssign(t) ==
  /\ threads[t].pc = "assign"
  /\ m_WorkingDirectory' = threads[t].ret
  /\ threads' = IF threads[t].ret = EmptyPath
                 THEN [threads EXCEPT ![t].pc = "returned", ![t].result = False]
                 ELSE [threads EXCEPT ![t].pc = "write"]
  /\ UNCHANGED <<fsDirs, m_FailedNodes, m_FailedProperties, files, archives,
                 Sequential>>

\* Lines 502-515 and 533-551 in thread t: one serializer is given the
\* transcoded working directory and writes its file there, or raises an
\* error.
ThreadWriteFile(t) ==
  /\ threads[t].pc = "write" /\ threads[t].todo # <<>>
  /\ \E wd \in ReadWorkingDirectory(t), outcome \in {"writes", "throws"} :
       LET dir == Transcode(wd)
           file == Head(threads[t].todo)
       IN  /\ outcome = "writes" => dir \in fsDirs
           /\ files' = IF outcome = "writes"
                        THEN files \cup {[dir |-> dir, owner |-> t, name |-> file.name]}
                        ELSE files
           /\ m_FailedNodes' = IF outcome = "throws" /\ file.payload
                                THEN Append(m_FailedNodes, threads[t].sceneNodes[1])
                                ELSE m_FailedNodes
           /\ threads' = [threads EXCEPT
                 ![t].todo = Tail(@),
                 ![t].wrote = IF outcome = "writes" THEN @ \cup {dir} ELSE @]
  /\ UNCHANGED <<fsDirs, m_WorkingDirectory, m_FailedProperties, archives,
                 Sequential>>

\* Lines 414-421 in thread t: index.xml is written into the transcoded
\* working directory.
ThreadManifest(t) ==
  /\ threads[t].pc = "write" /\ threads[t].todo = <<>>
  /\ \E wd \in ReadWorkingDirectory(t), written \in BOOLEAN :
       LET dir == Transcode(wd)
       IN  /\ written => dir \in fsDirs
           /\ files' = IF written
                        THEN files \cup {[dir |-> dir, owner |-> t, name |-> IndexXml]}
                        ELSE files
           /\ threads' = IF written
                          THEN [threads EXCEPT ![t].pc = "pack", ![t].wrote = @ \cup {dir}]
                          ELSE [threads EXCEPT ![t].pc = "returned", ![t].result = False]
  /\ UNCHANGED <<fsDirs, m_WorkingDirectory, m_FailedNodes, m_FailedProperties,
                 archives, Sequential>>

\* Lines 424-445 and 457-461 in thread t: the destination of the thread is
\* opened and the working directory is packed into it.
ThreadPack(t) ==
  /\ threads[t].pc = "pack"
  /\ \E wd \in ReadWorkingDirectory(t), open \in {"ok", "fails"}, zip \in {"ok", "throws"} :
       /\ zip = "ok" => wd \in fsDirs
       /\ IF open = "fails"
          THEN /\ archives' = [archives EXCEPT ![t] = [kind |-> "absent", files |-> {}]]
               /\ threads' = [threads EXCEPT ![t].pc = "returned", ![t].result = False]
          ELSE IF zip = "throws"
               THEN /\ archives' = [archives EXCEPT ![t] = [kind |-> "partial", files |-> {}]]
                    /\ threads' = [threads EXCEPT ![t].pc = "returned", ![t].result = False]
               ELSE /\ archives' = [archives EXCEPT ![t] =
                          [kind |-> "complete", files |-> {f \in files : f.dir = wd}]]
                    /\ threads' = [threads EXCEPT ![t].pc = "cleanup", ![t].packedFrom = wd]
  /\ UNCHANGED <<fsDirs, m_WorkingDirectory, m_FailedNodes, m_FailedProperties,
                 files, Sequential>>

\* Lines 446-462 in thread t: the working directory is removed.
ThreadCleanup(t) ==
  /\ threads[t].pc = "cleanup"
  /\ \E wd \in ReadWorkingDirectory(t), remove \in {"ok", "throws"} :
       /\ remove = "ok" => wd \in fsDirs
       /\ IF remove = "ok"
          THEN /\ fsDirs' = RemoveTree(fsDirs, wd)
               /\ files' = {f \in files : f.dir # wd}
               /\ threads' = [threads EXCEPT ![t].pc = "returned", ![t].removed = wd,
                                              ![t].result = True]
          ELSE /\ threads' = [threads EXCEPT ![t].pc = "returned", ![t].result = False]
               /\ UNCHANGED <<fsDirs, files>>
  /\ UNCHANGED <<m_WorkingDirectory, m_FailedNodes, m_FailedProperties, archives,
                 Sequential>>

\* A new engine, empty temporary directories, and two threads that have
\* called SaveScene with a node set and a destination each.
InitConcurrent ==
  /\ InitEngine
  /\ fsDirs = {} /\ ~localeMangles
  /\ destFile = Absent
  /\ callsLeft = 0
  /\ threads \in [Threads -> {NewThread(n) : n \in ThreadNodeSets}]
  /\ files = {}
  /\ archives = [t \in Threads |-> [kind |-> "absent", files |-> {}]]

NextConcurrent ==
  \E t \in Threads :
    \/ ThreadBegin(t)
    \/ ThreadStaging(t)
    \/ ThreadAssign(t)
    \/ ThreadWriteFile(t)
    \/ ThreadManifest(t)
    \/ ThreadPack(t)
    \/ ThreadCleanup(t)

ConcurrentSaves == InitConcurrent /\ [][NextConcurrent]_vars

-----------------------------------------------------------------------------
(* The write loop of SaveScene with SaveBaseData one candidate at a time *)

\* What the candidate loop leaves alone.
OutsideBaseData ==
  <<fsDirs, destFile, m_WorkingDirectory, m_UnzipErrors, m_FailedProperties,
    Storages, dsSources, localeMangles, lastClean, lastLoad, lastSaved,
    callsLeft, Concurrent, pc, args, SaveLocals, staged, result, hist>>

\* Lines 243 and 325: the failure list is new and the write loop starts at
\* the first entry of sceneNodes.
WriteLoopBegin ==
  /\ baseData.at = "idle"
  /\ \E nodes \in SceneNodeSets :
       baseData' = [NoBaseData EXCEPT !.at = "loop", !.sceneNodes = nodes, !.iter = 1]
  /\ m_FailedNodes' = <<>>
  /\ UNCHANGED OutsideBaseData

\* Lines 327-362 and 475-494: an entry that is NULL or has no data calls no
\* SaveBaseData; for the others error is set and the candidates are created.
SaveBaseDataBegin ==
  /\ baseData.at = "loop" /\ baseData.iter <= Len(baseData.sceneNodes)
  /\ LET node == baseData.sceneNodes[baseData.iter]
     IN  IF node = NULL \/ GetData(node) = NULL
         THEN baseData' = [baseData EXCEPT !.iter = @ + 1]
         ELSE \E thingsThatCanSerializeThis \in CandidateLists :
                baseData' = [baseData EXCEPT
                  !.at = "candidates", !.cands = thingsThatCanSerializeThis,
                  !.candidate = 1, !.serialized = <<>>, !.error = TRUE,
                  !.file = NoFile]
  /\ UNCHANGED <<m_FailedNodes, OutsideBaseData>>

\* The candidate loop going on to the next candidate after Serialize.
AfterSerialize_NoBreak(cands, candidate) == candidate + 1

\* Line 516, the break: no candidate is looked at after the one asked.
AfterSerialize(cands, candidate) == Len(cands) + 1

\* Lines 496-518: one candidate of the list. An object that is no
\* BaseDataSerializer is passed over; a BaseDataSerializer is asked to
\* Serialize, which gives the file and clears error, or raises an error that
\* is logged.
SaveBaseDataCandidate ==
  /\ baseData.at = "candidates" /\ baseData.candidate <= Len(baseData.cands)
  /\ LET node == baseData.sceneNodes[baseData.iter]
         kind == baseData.cands[baseData.candidate]
     IN  baseData' =
           IF kind = "other"
           THEN [baseData EXCEPT !.candidate = @ + 1]
           ELSE [baseData EXCEPT
                   !.serialized = Append(@, baseData.candidate),
                   !.file = IF kind = "writes" THEN MakeCindentifier(GetName(node))
                            ELSE @,
                   !.error = IF kind = "writes" THEN FALSE ELSE @,
                   !.candidate = AfterSerialize(baseData.cands, @)]
  /\ UNCHANGED <<m_FailedNodes, OutsideBaseData>>

\* Lines 520 and 363-367: the element is returned and the node is put on
\* m_FailedNodes when error is set; the loop goes on with the next entry.
SaveBaseDataReturn ==
  /\ baseData.at = "candidates" /\ baseData.candidate > Len(baseData.cands)
  /\ LET node == baseData.sceneNodes[baseData.iter]
     IN  /\ m_FailedNodes' = IF baseData.error THEN Append(m_FailedNodes, node)
                             ELSE m_FailedNodes
         /\ baseData' = [baseData EXCEPT
               !.at = "loop", !.iter = @ + 1,
               !.done = Append(@, [iter |-> baseData.iter, node |-> node,
                                   cands |-> baseData.cands,
                                   serialized |-> baseData.serialized,
                                   error |-> baseData.error,
                                   file |-> baseData.file,
                                   failedNodes |-> m_FailedNodes'])]
  /\ UNCHANGED OutsideBaseData

\* Line 411: the write loop has gone through sceneNodes.
WriteLoopEnd ==
  /\ baseData.at = "loop" /\ baseData.iter > Len(baseData.sceneNodes)
  /\ baseData' = [baseData EXCEPT !.at = "written"]
  /\ UNCHANGED <<m_FailedNodes, OutsideBaseData>>

InitWriteLoop ==
  /\ InitEngine
  /\ OneThread
  /\ fsDirs = {} /\ ~localeMangles
  /\ destFile = Absent
  /\ callsLeft = 0

NextWriteLoop ==
  \/ WriteLoopBegin
  \/ SaveBaseDataBegin
  \/ SaveBaseDataCandidate
  \/ SaveBaseDataReturn
  \/ WriteLoopEnd

\* One write loop, a serializer candidate per step.
WriteLoop == InitWriteLoop /\ [][NextWriteLoop]_vars

TypeOK ==
  /\ pc \in {"idle", "s_staging", "s_uids", "s_write", "s_pack", "s_cleanup",
             "l_staging", "l_unzip", "l_load", "l_cleanup", "returned"}
  /\ callsLeft \in 0..MaxCalls

-----------------------------------------------------------------------------
(* Properties *)

SaveReturned == pc = "returned" /\ hist.op = "save"
LoadReturned == pc = "returned" /\ hist.op = "load"

\* The nodes of the node set that are not NULL.
SavedNodes == {args.sceneNodes[i] : i \in 1..Len(args.sceneNodes)} \ {NULL}

\* C1: when SaveScene returns, the staging directory it created no longer
\* exists, whatever the outcome of the save.
C1_SaveStagingRemoved ==
  (SaveReturned /\ hist.created # None) => hist.created \notin fsDirs

\* C2, as stated: when LoadScene returns, the staging directory it created no
\* longer exists.
C2_LoadStagingRemoved ==
  (LoadReturned /\ hist.created # None) => hist.created \notin fsDirs

\* C2, amended: when LoadScene returns after it created a staging directory,
\* it has tried to remove the working directory, and the staging directory no
\* longer exists unless that removal raised an error.
C2_LoadStagingRemovalTried ==
  (LoadReturned /\ hist.created # None) =>
    /\ hist.cleanup # None
    /\ hist.cleanup = "ok" => hist.created \notin fsDirs

\* C2, witness: a load whose manifest could not be parsed has returned and its
\* staging directory is gone.
C2_Witness ==
  /\ LoadReturned /\ hist.created # None /\ hist.hard = "manifest"
  /\ hist.cleanup = "ok" /\ hist.created \notin fsDirs

\* C3: SaveScene returns false after every hard error (missing input, no
\* staging directory created, manifest not written, destination not opened or
\* not packed), and no later stage of the save runs after a hard error.
C3_HardErrorFailsSave ==
  (SaveReturned /\ hist.hard # None) => (result = False /\ ~hist.afterHard)

\* C4: a save in which payloads failed to serialize and no hard error occurred
\* returns true, its manifest has an element for every node, and the failed
\* nodes are exactly the nodes whose payload failed.
C4_SoftFailuresKeepSuccess ==
  (SaveReturned /\ hist.hard = None /\ hist.failedNodes # {}) =>
    /\ result = True
    /\ {document[i].UID : i \in 1..Len(document)} = {nodeUIDs[n] : n \in SavedNodes}
    /\ Range(GetFailedNodes) = hist.failedNodes

\* C5: after any SaveScene call, GetFailedNodes and GetFailedProperties hold
\* nothing but the failures of that call.
C5_AccumulatorsReset ==
  SaveReturned =>
    /\ Range(GetFailedNodes) \subseteq hist.failedNodes
    /\ GetFailedProperties \subseteq hist.failedProps

\* C6: a failure to remove the staging directory does not change the result:
\* a save that wrote its manifest and packed its archive returns true, and a
\* load returns the storage it filled.
C6_CleanupFailureKeepsResult ==
  /\ (SaveReturned /\ hist.manifest /\ hist.packed) => result = True
  /\ (LoadReturned /\ hist.cleanup # None) => result = storage

\* C7: the path CreateEmptyTempDirectory returns is either empty or a
\* directory the call created itself, never one that existed before.
C7_StagingExclusive ==
  (\/ pc \in {"s_uids", "l_unzip"}
   \/ pc = "returned" /\ hist.attempted /\ m_WorkingDirectory = EmptyPath) =>
    IF m_WorkingDirectory = EmptyPath THEN hist.created = None
    ELSE hist.created = m_WorkingDirectory

\* C8: when SaveScene returns, the destination holds the complete new archive
\* after success; after failure it still holds the complete archive it held
\* before the call, and it holds no partially written file of this save.
C8_DestinationAtomic ==
  SaveReturned =>
    IF result = True THEN destFile = Archive("complete", document, FileVersion)
    ELSE /\ hist.preDest.kind = "complete" => destFile = hist.preDest
         /\ destFile.kind = "partial" => destFile = hist.preDest

C10_HardErrorDistinguishable ==
  (LoadReturned /\ hist.hard # None) => Observed \notin lastClean

\* C11: a load in which entries of the archive failed to extract and no hard
\* error occurred has counted the failures of this load, has gone on to parse
\* the manifest, fill the storage and clean up, and the caller can tell the
\* count from what it has in hand: after two loads that leave the same in the
\* caller's hands the counts are the same.
C11_UnzipErrorsSurfaced ==
  (LoadReturned /\ hist.unzipped /\ hist.unzipFailures > 0 /\ hist.hard = None) =>
    /\ m_UnzipErrors = hist.unzipFailures
    /\ hist.cleanup # None
    /\ \A x \in lastLoad : x.obs = Observed => x.unzipErrors = m_UnzipErrors

\* LoadSceneUnzipped has run in the running load.
LoadedUnzipped == hist.op = "load" /\ pc \in {"l_cleanup", "returned"} /\ hist.unzipped

\* C12, as stated: after LoadSceneUnzipped with clearStorageFirst the storage
\* holds the reloaded nodes and none of the nodes it held before the call;
\* without clearStorageFirst it holds the nodes it held before and the
\* reloaded ones.
C12_ClearFirstRemovesAll ==
  LoadedUnzipped =>
    IF args.clearStorageFirst THEN Content(storage) = hist.read
    ELSE Content(storage) = hist.preStorage \cup hist.read

\* C12, amended: with clearStorageFirst the removal of all nodes is tried
\* before the reader runs, and the storage then holds the reloaded nodes and
\* none of the earlier ones unless the removal raised an error; without
\* clearStorageFirst the storage holds the earlier nodes and the reloaded ones.
C12_ClearFirstTried ==
  LoadedUnzipped =>
    IF args.clearStorageFirst
    THEN /\ hist.clear # None
         /\ hist.clear = "ok" => Content(storage) = hist.read
         /\ hist.read \subseteq Content(storage)
    ELSE Content(storage) = hist.preStorage \cup hist.read

\* C12, witness: a load with clearStorageFirst into the caller's storage, which
\* held a node, has returned; the storage holds the reloaded nodes only.
C12_Witness ==
  /\ LoadReturned /\ args.clearStorageFirst /\ args.pStorage = "caller"
  /\ hist.preStorage # {} /\ hist.clear = "ok" /\ hist.read # {}
  /\ callerStorage = hist.read /\ callerStorage \cap hist.preStorage = {}

\* The save is in or past its first loop, the write loop has not returned.
InSavePass == hist.op = "save" /\ pc \in {"s_uids", "s_write", "s_pack", "s_cleanup"}

\* The first loop of the save is over.
IdentifiersAssigned == hist.op = "save" /\ pc \in {"s_write", "s_pack", "s_cleanup"}

\* The identifiers of the node records written so far.
RecordUIDs == {document[i].UID : i \in 1..Len(document)}

\* C13: in a save pass no node outside the node set has an identifier,
\* distinct nodes have distinct identifiers, after the first loop every node
\* of the node set has one, every node record of the manifest carries the
\* identifier of a node of the node set, and no step of the pass replaces an
\* identifier a node has got.
C13_IdentifierAssignment ==
  /\ [](InSavePass =>
         /\ DOMAIN nodeUIDs \subseteq SavedNodes
         /\ \A a, b \in DOMAIN nodeUIDs : a # b => nodeUIDs[a] # nodeUIDs[b]
         /\ \A n \in DOMAIN nodeUIDs : nodeUIDs[n] # 0
         /\ RecordUIDs \subseteq {nodeUIDs[n] : n \in SavedNodes \cap DOMAIN nodeUIDs}
         /\ IdentifiersAssigned => DOMAIN nodeUIDs = SavedNodes)
  /\ [][InSavePass =>
         \A n \in DOMAIN nodeUIDs :
            n \in DOMAIN nodeUIDs' /\ nodeUIDs'[n] = nodeUIDs[n]]_vars

\* C13, witness: the save of <<n3, n1>>, where n3 has the sources n2 and n1,
\* has written both node records; n1 got its identifier as a source of n3
\* before its own pass, n2 has none.
C13_Witness ==
  /\ IdentifiersAssigned /\ args.sceneNodes = <<"n3", "n1">>
  /\ Len(document) = 2 /\ "n2" \notin DOMAIN nodeUIDs
  /\ nodeUIDs["n1"] = 1 /\ nodeUIDs["n3"] = 2

\* C14: once the manifest of a save is written, its node records carry as
\* many distinct identifiers as the node set has nodes, every record carries
\* one, and every source reference in a record is the identifier of a record
\* of the same manifest.
C14_ReferentialClosure ==
  (hist.op = "save" /\ hist.manifest) =>
    /\ Cardinality(RecordUIDs) = Cardinality(SavedNodes)
    /\ 0 \notin RecordUIDs
    /\ \A i \in 1..Len(document) : Range(document[i].sources) \subseteq RecordUIDs

\* C14, witness: the manifest of the save of <<n2, n1>> is written; the record
\* of n2 refers to the identifier of the record of n1, which comes after it.
C14_Witness ==
  /\ hist.op = "save" /\ hist.manifest /\ args.sceneNodes = <<"n2", "n1">>
  /\ document[1].UID = 2 /\ document[1].sources = <<1>> /\ document[2].UID = 1

\* The nodes of the node set in the order of their records in the manifest.
RecordNodes == SelectSeq(args.sceneNodes, LAMBDA n : n # NULL)

\* C15: the source references in the record of a node are the identifiers of
\* exactly those direct predecessors of the node in the storage that are in
\* the node set; a predecessor outside the node set gives no reference.
C15_EdgeFiltering ==
  IdentifiersAssigned =>
    \A i \in 1..Len(document) :
       Range(document[i].sources) =
         {nodeUIDs[p] : p \in Range(GetSources(RecordNodes[i])) \cap SavedNodes}

\* C15, witness: the manifest of the save of <<n3, n1>> is written; n3 has the
\* predecessors n2 and n1, its record refers to n1 only.
C15_Witness ==
  /\ hist.op = "save" /\ hist.manifest /\ args.sceneNodes = <<"n3", "n1">>
  /\ GetSources("n3") = <<"n2", "n1">>
  /\ document[1].sources = <<nodeUIDs["n1"]>>

\* C16: every data element in a node record of the manifest carries a type
\* name and a file reference; a payload that failed to serialize has left no
\* data element.
C16_NoPartialPayload ==
  hist.op = "save" =>
    \A i \in 1..Len(document) :
       \A j \in 1..Len(document[i].data) :
          document[i].data[j].type # NULL /\ document[i].data[j].file # NoFile

\* C17: in a save, the properties a property-list serializer reported as
\* failed are in the failed properties, the failed properties are not empty
\* once a property-list serializer has raised an error, and the write loop
\* has gone on to write a record for every node of the node set.
C17_PropertyFailuresSurfaced ==
  (hist.op = "save" /\ pc \in {"s_write", "s_pack", "s_cleanup", "returned"}) =>
    /\ hist.failedProps \subseteq GetFailedProperties
    /\ hist.propsThrown => GetFailedProperties # {}
    /\ hist.manifest => Len(document) = Len(RecordNodes)

\* C18: a save of an empty node set in which no hard error occurred and the
\* removal of the staging directory raised no error has created a staging
\* directory and removed it, has left at the destination the complete archive
\* of a manifest with the version tag and no node element, has returned true,
\* and the failed nodes and failed properties are empty.
C18_EmptySceneSaved ==
  (/\ SaveReturned /\ ~args.sceneNodesNull /\ args.sceneNodes = <<>>
   /\ hist.hard = None /\ hist.cleanup # "throws") =>
    /\ result = True
    /\ hist.created # None /\ hist.created \notin fsDirs
    /\ destFile = Archive("complete", <<>>, FileVersion)
    /\ GetFailedNodes = <<>> /\ GetFailedProperties = {}

\* C18, witness: the save of an empty node set has returned true, the
\* destination held another archive before.
C18_Witness ==
  /\ SaveReturned /\ ~args.sceneNodesNull /\ args.sceneNodes = <<>>
  /\ result = True /\ hist.preDest.doc # <<>>
  /\ destFile = Archive("complete", <<>>, FileVersion)

\* The running load reads the archive the previous call saved, with every
\* entry extracted and every node built, into a storage that is empty when
\* the reader starts.
RoundTrip ==
  /\ LoadReturned /\ lastSaved # {}
  /\ hist.hard = None /\ hist.unzipped /\ hist.unzipFailures = 0
  /\ hist.parsed /\ hist.failing = {}
  /\ args.pStorage = NULL \/ (args.clearStorageFirst /\ hist.clear = "ok")

\* sceneNodes holds no node twice.
NoNodeTwice(sceneNodes) ==
  \A i, j \in 1..Len(sceneNodes) :
     (i # j /\ sceneNodes[i] # NULL) => sceneNodes[i] # sceneNodes[j]

\* C19: after a save without failures of a node set that holds N nodes, none
\* of them twice, and a load of its archive into an empty storage, the
\* storage holds N nodes, one for each saved node, with the type name of its
\* data and with the nodes of exactly those of its sources as sources that
\* were saved with it.
C19_RoundTrip ==
  RoundTrip =>
    \A sceneNodes \in lastSaved :
       NoNodeTwice(sceneNodes) =>
         LET saved == Range(sceneNodes) \ {NULL}
             loaded == Content(result)
         IN  /\ Cardinality(loaded) = Cardinality(saved)
             /\ \E f \in [saved -> loaded] :
                   /\ \A a, b \in saved : a # b => f[a] # f[b]
                   /\ \A n \in saved :
                        /\ f[n].type = GetData(n)
                        /\ f[n].sources =
                             {f[p].UID : p \in Range(GetSources(n)) \cap saved}

\* C19, witness: <<n2, n1>> was saved and loaded again; the storage holds two
\* nodes, a Surface whose source is an Image.
C19_Witness ==
  /\ RoundTrip /\ lastSaved = {<<"n2", "n1">>}
  /\ Cardinality(Content(result)) = 2
  /\ \E a, b \in Content(result) :
        a.type = "Surface" /\ b.type = "Image" /\ a.sources = {b.UID}

\* C20: of two saves that run at the same time, each writes its files and
\* its manifest into, packs from and removes no directory but the staging
\* directory it created, its archive holds no file of the other save, and
\* after a save that returned true its staging directory is gone.
C20_ConcurrentSavesIndependent ==
  \A t \in Threads :
     /\ threads[t].wrote \subseteq {threads[t].created}
     /\ threads[t].packedFrom \in {None, threads[t].created}
     /\ threads[t].removed \in {None, threads[t].created}
     /\ \A f \in archives[t].files : f.owner = t
     /\ (threads[t].result = True /\ threads[t].created # None) =>
          threads[t].created \notin fsDirs

\* The place of a position of SaveScene in the order of its stages.
StageRank(p) ==
  CASE p = "idle" -> 0
    [] p = "s_staging" -> 1
    [] p = "s_uids" -> 2
    [] p = "s_write" -> 3
    [] p = "s_pack" -> 4
    [] p = "s_cleanup" -> 5
    [] OTHER -> 6

\* C21: a step of SaveScene stays in its stage, goes on to the next stage in
\* the order input validation, staging, identifiers, write loop and manifest,
\* pack, cleanup, or returns; the archive is packed only after the manifest
\* was written, and SaveScene returns true only after the archive was packed
\* and the working directory removed.
C21_StageOrder ==
  /\ [](hist.op = "save" =>
         /\ (pc \in {"s_pack", "s_cleanup"} \/ hist.packed) => hist.manifest
         /\ (pc = "returned" /\ result = True) =>
              /\ hist.packed /\ hist.cleanup = "ok"
              /\ m_WorkingDirectory \notin fsDirs)
  /\ [][(pc = "idle" /\ pc' = "s_staging") \/ hist.op = "save" =>
         \/ pc' = "returned"
         \/ StageRank(pc') = StageRank(pc)
         \/ StageRank(pc') = StageRank(pc) + 1
         \/ pc = "returned" /\ pc' = "idle"]_vars

\* C21, witness: a save of two nodes has gone through all stages and
\* returned true.
C21_Witness ==
  /\ SaveReturned /\ result = True /\ Len(document) = 2
  /\ hist.manifest /\ hist.packed /\ hist.cleanup = "ok"

\* The entries of sceneNodes that have data, with their place.
PayloadEntries(nodes) ==
  {i \in DOMAIN nodes : nodes[i] # NULL /\ GetData(nodes[i]) # NULL}

\* C22: for each payload at most one candidate is asked to Serialize; with
\* no candidate the node is on m_FailedNodes; when the candidate asked
\* raises an error the node is on m_FailedNodes, has no file and no later
\* candidate was asked; in each case the write loop goes on and comes to
\* every payload of sceneNodes.  The element and the error flag are those of
\* SaveBaseData.
C22_FirstCandidateAuthoritative ==
  /\ \A p \in Range(baseData.done) :
       /\ Len(p.serialized) <= 1
       /\ p.cands = <<>> =>
            p.serialized = <<>> /\ p.error /\ p.node \in Range(p.failedNodes)
       /\ \A k \in DOMAIN p.cands :
            (k \in Range(p.serialized) /\ p.cands[k] = "throws") =>
              /\ p.error /\ p.file = NoFile
              /\ p.node \in Range(p.failedNodes)
              /\ \A j \in Range(p.serialized) : j <= k
       /\ LET r == SaveBaseData(GetData(p.node), MakeCindentifier(GetName(p.node)),
                                p.cands)
          IN  r.error = p.error /\ r.element.file = p.file
  /\ baseData.at = "written" =>
       {p.iter : p \in Range(baseData.done)} = PayloadEntries(baseData.sceneNodes)

\* C22, witness: the first payload had a serializer that raised an error
\* before one that would have written, the second had no candidate, and the
\* write loop came to its end.
C22_Witness ==
  /\ baseData.at = "written" /\ Len(baseData.done) = 2
  /\ baseData.done[1].cands = <<"throws", "writes">>
  /\ baseData.done[1].serialized = <<1>>
  /\ baseData.done[2].cands = <<>>
  /\ Len(m_FailedNodes) = 2

\* The references to nodes the first i entries of nodes give rise to, in
\* order: for each entry that is not NULL its sources that are in nodes,
\* then the entry itself.
RECURSIVE References(_, _)
References(nodes, i) ==
  IF i = 0 THEN <<>>
  ELSE References(nodes, i - 1) \o
       (IF nodes[i] = NULL THEN <<>>
        ELSE SelectSeq(GetSources(nodes[i]), LAMBDA n : n \in Range(nodes))
             \o <<nodes[i]>>)

\* A sequence without the later occurrences of its elements.
RECURSIVE FirstOccurrences(_)
FirstOccurrences(seq) ==
  IF seq = <<>> THEN <<>>
  ELSE LET front == FirstOccurrences(SubSeq(seq, 1, Len(seq) - 1))
           last == seq[Len(seq)]
       IN  IF last \in Range(front) THEN front ELSE Append(front, last)

\* The nodes referenced by the first i entries, each at its first reference.
FirstReferenced(nodes, i) == FirstOccurrences(References(nodes, i))

\* The place of node n in the sequence o.
Ordinal(o, n) == CHOOSE k \in DOMAIN o : o[k] = n

\* C23: at each point of the first loop the nodes with an identifier are
\* those referenced so far, as a source in the node set or as the entry of a
\* pass, and the k-th of them in the order of first reference has the k-th
\* identifier generated; the node records and their source references carry
\* these identifiers.
C23_LazyAssignmentOrder ==
  InSavePass =>
    LET visited == IF pc = "s_uids" THEN idx - 1 ELSE Len(args.sceneNodes)
        o == FirstReferenced(args.sceneNodes, visited)
    IN  /\ DOMAIN nodeUIDs = Range(o)
        /\ nodeUIDGen = Len(o)
        /\ \A k \in DOMAIN o : nodeUIDs[o[k]] = k
        /\ \A i \in 1..Len(document) :
             /\ document[i].UID = Ordinal(o, RecordNodes[i])
             /\ Range(document[i].sources) =
                  {Ordinal(o, n) : n \in Range(GetSources(RecordNodes[i]))
                                        \cap Range(args.sceneNodes)}

\* C23, witness: in the save of <<n2, n1>> the first pass, for n2, is over
\* and the second is not: n1 has the first identifier as the source of n2,
\* n2 the second.
C23_Witness ==
  /\ hist.op = "save" /\ pc = "s_uids" /\ idx = 2
  /\ args.sceneNodes = <<"n2", "n1">>
  /\ nodeUIDs["n1"] = 1 /\ nodeUIDs["n2"] = 2 /\ nodeUIDGen = 2

\* C24: the node records written are, in order, those of the entries of
\* sceneNodes that are not NULL and that the write loop has passed, one per
\* entry and so one per node when no node is entered twice, each with the
\* identifier of its node, whatever failed for the node; NULL has no
\* identifier and is not on m_FailedNodes.
C24_OneRecordPerNode ==
  IdentifiersAssigned =>
    LET passed == IF pc = "s_write" THEN SubSeq(args.sceneNodes, 1, idx - 1)
                  ELSE args.sceneNodes
        nodes == SelectSeq(passed, LAMBDA n : n # NULL)
    IN  /\ Len(document) = Len(nodes)
        /\ \A i \in 1..Len(nodes) :
             nodes[i] \in DOMAIN nodeUIDs /\ document[i].UID = nodeUIDs[nodes[i]]
        /\ NULL \notin DOMAIN nodeUIDs
        /\ NULL \notin Range(m_FailedNodes)
        /\ (hist.manifest /\ NoNodeTwice(args.sceneNodes)) =>
             /\ Len(document) = Cardinality(SavedNodes)
             /\ \A n \in SavedNodes :
                  Cardinality({i \in 1..Len(document) : document[i].UID = nodeUIDs[n]}) = 1

\* C24, witness: the manifest of the save of <<n2, NULL, n1>> or, with two
\* entries, of <<NULL, n1>> is written with the record of n1 last, although
\* the payload of n1 has no file and the serializer of its property list
\* raised an error.
C24_Witness ==
  /\ hist.op = "save" /\ hist.manifest
  /\ NULL \in Range(args.sceneNodes) /\ args.sceneNodes[Len(args.sceneNodes)] = "n1"
  /\ Len(document) = Len(args.sceneNodes) - 1
  /\ document[Len(document)].UID = nodeUIDs["n1"]
  /\ "n1" \in Range(m_FailedNodes) /\ hist.propsThrown

\* The property-list elements of a node record: that of the data, those of
\* the render windows and that of the node.
PropertyElements(record) ==
  UNION {Range(record.data[j].properties) : j \in 1..Len(record.data)}
    \cup Range(record.windows) \cup Range(record.properties)

\* C25: every property-list element of a node record carries a file
\* reference; the element of a render-window list carries the name of the
\* render window, the elements of the node's own list and of the data carry
\* none; a list that is empty has no element.
C25_PropertyListElements ==
  hist.op = "save" =>
    \A i \in 1..Len(document) :
       LET node == RecordNodes[i]
       IN  /\ \A e \in PropertyElements(document[i]) : e.file # NoFile
           /\ \A e \in Range(document[i].windows) :
                e.renderwindow \in Range(GetPropertyListNames(node))
           /\ \A e \in Range(document[i].properties) : e.renderwindow = None
           /\ ~HasNodeProperties(node) => document[i].properties = <<>>
           /\ Len(document[i].windows) <= Len(GetPropertyListNames(node))
           /\ \A j \in 1..Len(document[i].data) :
                /\ ~HasDataProperties(node) => document[i].data[j].properties = <<>>
                /\ \A e \in Range(document[i].data[j].properties) :
                     e.renderwindow = None

\* C26: a call that has started returns; CreateEmptyTempDirectory calls
\* createDirectory at most twice; a pass of the first loop or of the write
\* loop of the save is for an entry of sceneNodes and the next pass is for
\* the next entry, so that each loop has as many passes as sceneNodes has
\* entries.
C26_CallsTerminate ==
  /\ (pc \notin {"idle", "returned"}) ~> (pc = "returned")
  /\ [](hist.attempted => hist.tries \in 1..2)
  /\ [](InSavePass => idx \in 1..(Len(args.sceneNodes) + 1))
  /\ [][(pc \in {"s_uids", "s_write"} /\ pc' = pc) =>
         (idx <= Len(args.sceneNodes) /\ idx' = idx + 1)]_vars

\* C26, witness: a save of two nodes has returned after a second call of
\* createDirectory, the first directory being there already.
C26_Witness ==
  /\ SaveReturned /\ hist.tries = 2 /\ hist.created = "O1"
  /\ Len(args.sceneNodes) = 2 /\ Len(document) = 2

\* LoadScene has returned from a call with clearStorageFirst for the storage
\* of the caller.
ClearingLoadReturned ==
  LoadReturned /\ args.clearStorageFirst /\ args.pStorage = "caller"

\* C27, as stated: a load with clearStorageFirst that returned at the test of
\* the file name, of the archive or of the working directory has left the
\* storage as it was; one that got past them has removed the nodes that were
\* in the storage, and when the manifest could not be parsed the storage is
\* empty.
C27_ClearedPastStaging ==
  ClearingLoadReturned =>
    /\ ~hist.unzipped => callerStorage = hist.preStorage
    /\ hist.unzipped => callerStorage \cap hist.preStorage = {}
    /\ (hist.unzipped /\ ~hist.parsed) => callerStorage = {}

\* C27, amended: a load with clearStorageFirst that returned at one of the
\* three tests has left the storage as it was; one that got past them has
\* tried to remove the nodes that were in the storage and none of them is
\* left unless the removal raised an error; when the manifest could not be
\* parsed nothing was loaded, and the storage is empty unless the removal
\* raised an error.
C27_ClearTriedPastStaging ==
  ClearingLoadReturned =>
    /\ ~hist.unzipped => (hist.clear = None /\ callerStorage = hist.preStorage)
    /\ hist.unzipped =>
         /\ hist.clear # None
         /\ hist.clear = "ok" => callerStorage \cap hist.preStorage = {}
    /\ (hist.unzipped /\ ~hist.parsed) =>
         /\ hist.read = {} /\ callerStorage \subseteq hist.preStorage
         /\ hist.clear = "ok" => callerStorage = {}

\* C27, witness: a load with clearStorageFirst into the storage of the
\* caller, which held a node, got past the three tests, could not parse the
\* manifest and returned the storage empty.
C27_Witness ==
  /\ ClearingLoadReturned /\ hist.preStorage # {}
  /\ hist.unzipped /\ ~hist.parsed /\ hist.clear = "ok"
  /\ callerStorage = {} /\ result = "caller"

\* C28: a save that has returned without having written the manifest, at the
\* input checks, at the creation of the working directory or at the manifest
\* write, has returned false and left at the destination what was there; a
\* step changes what the destination holds only in a save whose manifest is
\* written; a save with an input missing has asked for no working directory
\* and its first step creates none.
C28_DestinationKeptOnEarlyFailure ==
  /\ []((SaveReturned /\ ~hist.manifest) =>
          (result = False /\ destFile = hist.preDest))
  /\ []((hist.op = "save" /\
          (args.sceneNodesNull \/ args.storage = NULL \/ args.filename = "")) =>
          /\ pc = "returned" /\ hist.hard = "input"
          /\ ~hist.attempted /\ hist.created = None /\ destFile = hist.preDest)
  /\ [][destFile' # destFile => (hist.op = "save" /\ hist.manifest)]_vars
  /\ [][pc = "idle" => fsDirs' = fsDirs]_vars

\* C28, witness: a save over an archive that was at the destination has
\* created its working directory, failed to write the manifest and returned
\* with the old archive still there.
C28_Witness ==
  /\ SaveReturned /\ hist.created # None /\ hist.hard = "manifest"
  /\ ~hist.manifest /\ Len(document) = 1
  /\ hist.preDest.kind # "absent" /\ destFile = hist.preDest

\* The sequence seq, n times in a row.
RECURSIVE Repeated(_, _)
Repeated(seq, n) == IF n = 0 THEN <<>> ELSE seq \o Repeated(seq, n - 1)

\* C29: in the save of a node set that holds a node more than once, as many
\* identifiers are generated as there are distinct nodes that are not NULL;
\* every record of a node carries the one identifier of the node, so that
\* a node has as many records with its identifier as it has entries; and the
\* references to the sources of the node are put on its dependency list
\* once for each of its entries, the list being written in each record.
C29_IdentifierPerNode ==
  (hist.op = "save" /\ hist.manifest) =>
    /\ nodeUIDGen = Cardinality(SavedNodes)
    /\ Cardinality({nodeUIDs[n] : n \in SavedNodes}) = Cardinality(SavedNodes)
    /\ \A i \in 1..Len(document) :
         LET node == RecordNodes[i]
             refs == SelectSeq(GetSources(node), LAMBDA n : n \in SavedNodes)
         IN  /\ document[i].UID = nodeUIDs[node]
             /\ document[i].sources =
                  Repeated([k \in 1..Len(refs) |-> nodeUIDs[refs[k]]],
                           Occurrences(args.sceneNodes, node))
    /\ \A n \in SavedNodes :
         Cardinality({i \in 1..Len(document) : document[i].UID = nodeUIDs[n]})
           = Occurrences(args.sceneNodes, n)

\* C29, witness: the manifest of the save of a node set with n2 first and
\* last and its source n1 between is written: two identifiers, the first and
\* the last record with the identifier of n2 and the reference to n1 twice.
C29_Witness ==
  /\ hist.op = "save" /\ hist.manifest
  /\ Len(args.sceneNodes) > 2
  /\ args.sceneNodes[1] = "n2" /\ args.sceneNodes[Len(args.sceneNodes)] = "n2"
  /\ Range(args.sceneNodes) = {"n1", "n2"}
  /\ Occurrences(args.sceneNodes, "n2") = 2
  /\ nodeUIDGen = 2 /\ nodeUIDs["n2"] = 2
  /\ document[1].UID = 2 /\ document[Len(document)].UID = 2
  /\ document[1].sources = <<1, 1>>
=============================================================================
